---------------------------- MODULE Spec2Model ----------------------------
(***************************************************************************)
(* Collapsed Gibbs sampler for Latent Dirichlet Allocation, as implemented *)
(* by class LatentDirichletAllocation in src/src/sampler_class.py.         *)
(*                                                                         *)
(* Documents are identified by their position in the corpus (dict order),  *)
(* tokens are strings.  The float hyperparameters alpha and beta are held  *)
(* as integers in units of 1/Scale, so that every density is an exact      *)
(* rational number; rounding of floats is not modelled.                    *)
(*                                                                         *)
(* Library behaviour assumed: numpy.random.randint raises ValueError for   *)
(* an empty range unless no sample is requested; numpy.zeros raises        *)
(* ValueError for a negative dimension; random.choices (Python >= 3.9)     *)
(* raises ValueError when the weights total <= 0 and otherwise bisects the *)
(* cumulative weights; scipy.stats.mode returns the smallest of the most   *)
(* frequent values.                                                        *)
(***************************************************************************)
EXTENDS Integers, Sequences, FiniteSets, TLC

(* ------------------------------ bounds --------------------------------- *)
MaxK == 2
MaxNiter == 2
MaxDraws == 4
MaxN == 3
Scale == 2

(* Corpora the instance is constructed with: no document, one empty        *)
(* document, a single token, a word shared by two documents around an      *)
(* empty one, two words over two documents, and a word that is repeated    *)
(* inside one document and occurs in a second document as well.            *)
Corpora ==
    { << >>,
      << << >> >>,
      << <<"a">> >>,
      << <<"a">>, << >>, <<"a">> >>,
      << <<"a", "b">>, <<"b">> >>,
      << <<"a", "b", "a">>, <<"a">> >> }

KValues == (0 - 1) .. MaxK
CtorHypers == { <<1, 1>>, <<1, 2>>, <<0, 1>>, <<1, 0 - 1>> }
FitHyperValues == { 0 - 1, 0, 1 }

\* The <<alpha, beta>> pairs given to fit: for an instance constructed with
\* <<1, 1>> every pair over FitHyperValues with at most one entry off 1, and
\* otherwise the constructor's own pair or <<1, 1>>.
FitHypers(ctor_alpha, ctor_beta) ==
    IF <<ctor_alpha, ctor_beta>> = <<1, 1>>
    THEN { h \in FitHyperValues \X FitHyperValues : h[1] = 1 \/ h[2] = 1 }
    ELSE { <<ctor_alpha, ctor_beta>>, <<1, 1>> }
NiterValues == 0 .. MaxNiter
NValues == 0 .. MaxN

VARIABLES
    iden_to_tokens,           \* self.iden_to_tokens: sequence of token sequences
    K,                        \* self.K
    self_alpha,               \* self.alpha  (units of 1/Scale)
    self_beta,                \* self.beta   (units of 1/Scale)
    vocabulary,               \* self.vocabulary: sequence of unique tokens
    phi_matrix,               \* self.phi_matrix: [1..K -> [1..W -> <<num, den>>]]
    alpha,                    \* fit argument alpha (units of 1/Scale)
    beta,                     \* fit argument beta  (units of 1/Scale)
    niter,                    \* fit argument niter
    pc,                       \* position of the caller / of fit
    err,                      \* exception raised, or "none"
    j,                        \* number of completed sweeps
    cur,                      \* <<doc, i>> next occurrence to resample, 1-based
    document_word_topics_MC,  \* [doc -> sequence of topic histories]
    document_topic_counts,    \* [doc -> [topic -> count]]
    word_topic_counts,        \* [word -> [topic -> count]]
    total_topic_counts,       \* [topic -> count]
    document_word_topics,     \* result of _compute_MC_topic_approx
    topic_top_words,          \* result of get_top_n_words
    query                     \* [status, phase, n] of the get_top_n_words call

vars == << iden_to_tokens, K, self_alpha, self_beta, vocabulary, phi_matrix,
           alpha, beta, niter, pc, err, j, cur, document_word_topics_MC,
           document_topic_counts, word_topic_counts, total_topic_counts,
           document_word_topics, topic_top_words, query >>

(* --------------------------- small helpers ----------------------------- *)
NoValue == << >>

Max2(x, y) == IF x >= y THEN x ELSE y

D == Len(iden_to_tokens)

W == Len(vocabulary)

Topics == 1 .. K

VocabSet == { vocabulary[x] : x \in 1 .. Len(vocabulary) }

\* Number of tokens of the first d documents of corpus c.
RECURSIVE TokensUpTo(_, _)
TokensUpTo(c, d) ==
    IF d = 0 THEN 0 ELSE TokensUpTo(c, d - 1) + Len(c[d])

TotalTokens(c) == TokensUpTo(c, Len(c))

\* src.utility.get_unique_words: the unique tokens of the corpus, enumerated
\* in order of first appearance.
RECURSIVE UniqueOfSeq(_, _)
UniqueOfSeq(acc, s) ==
    IF s = << >> THEN acc
    ELSE IF \E x \in 1 .. Len(acc) : acc[x] = Head(s)
         THEN UniqueOfSeq(acc, Tail(s))
         ELSE UniqueOfSeq(Append(acc, Head(s)), Tail(s))

RECURSIVE UniqueOfDocs(_, _, _)
UniqueOfDocs(acc, c, d) ==
    IF d > Len(c) THEN acc
    ELSE UniqueOfDocs(UniqueOfSeq(acc, c[d]), c, d + 1)

get_unique_words(c) == UniqueOfDocs(<< >>, c, 1)

\* numpy.zeros((rows, cols)): a rows x cols matrix of 0, as exact fractions.
Zeros(rows, cols) == [r \in 1 .. rows |-> [c \in 1 .. cols |-> <<0, 1>>]]

(* -------------------------- __init__ ----------------------------------- *)
\* The constructor raises exactly when numpy.zeros is given a negative
\* dimension; it validates nothing else.
CtorRaises(k) == k < 0

Init ==
    \E c \in Corpora, k \in KValues, h \in CtorHypers :
        /\ iden_to_tokens = c
        /\ K = k
        /\ self_alpha = h[1]
        /\ self_beta = h[2]
        /\ vocabulary = get_unique_words(c)
        /\ phi_matrix = IF CtorRaises(k) THEN NoValue
                        ELSE Zeros(k, Len(get_unique_words(c)))
        /\ alpha = 0
        /\ beta = 0
        /\ niter = 0
        /\ pc = IF CtorRaises(k) THEN "ctor_raised" ELSE "constructed"
        /\ err = IF CtorRaises(k) THEN "ValueError" ELSE "none"
        /\ j = 0
        /\ cur = <<1, 1>>
        /\ document_word_topics_MC = NoValue
        /\ document_topic_counts = NoValue
        /\ word_topic_counts = NoValue
        /\ total_topic_counts = NoValue
        /\ document_word_topics = NoValue
        /\ topic_top_words = NoValue
        /\ query = [status |-> "not_called", phase |-> "none", n |-> 0]


(* ----------------------- _initialize_topics ---------------------------- *)
\* collections.Counter over the topic labels: a missing key reads as 0.
ZeroCounter == [k \in Topics |-> 0]

\* Variant: every distinct element of items is counted once.
CounterUpdateDistinct(counter, items) ==
    [k \in DOMAIN counter |->
        counter[k] + (IF \E x \in 1 .. Len(items) : items[x] = k THEN 1 ELSE 0)]

\* Counter.update(items): add one per element of the sequence items.
CounterUpdate(counter, items) ==
    [k \in DOMAIN counter |->
        counter[k] + Cardinality({ x \in 1 .. Len(items) : items[x] = k })]

\* set(words)
SetOfWords(words) == { words[x] : x \in 1 .. Len(words) }

\* [topic for idx, topic in enumerate(topics) if words[idx] == unique_word]
RECURSIVE UniqueWordTopics(_, _, _, _)
UniqueWordTopics(words, topics, unique_word, idx) ==
    IF idx > Len(topics) THEN << >>
    ELSE IF words[idx] = unique_word
         THEN << topics[idx] >> \o UniqueWordTopics(words, topics, unique_word, idx + 1)
         ELSE UniqueWordTopics(words, topics, unique_word, idx + 1)

\* numpy.random.randint(low, high, size) raises on an empty range unless no
\* sample is requested; otherwise any sequence over low .. high - 1 may come.
RandintRaises(low, high, size) == low >= high /\ size # 0

RandintOutcomes(low, high, size) == [1 .. size -> low .. (high - 1)]

\* [[topic] for topic in topics]
InitialChains(topics) == [x \in 1 .. Len(topics) |-> << topics[x] >>]

\* document_topic_counts[doc].update(topics)
InitDocumentTopicCounts(dtc, doc, topics) ==
    [dtc EXCEPT ![doc] = CounterUpdate(@, topics)]

\* total_topic_counts.update(topics)
InitTotalTopicCounts(ttc, topics) == CounterUpdate(ttc, topics)

\* Variant: every word of the document is credited with all its topics.
InitWordTopicCountsUnfiltered(wtc, words, topics) ==
    [w \in DOMAIN wtc |->
        IF w \in SetOfWords(words)
        THEN CounterUpdate(wtc[w], topics)
        ELSE wtc[w]]

\* for unique_word in set(words): word_topic_counts[unique_word].update(...)
InitWordTopicCounts(wtc, words, topics) ==
    [w \in DOMAIN wtc |->
        IF w \in SetOfWords(words)
        THEN CounterUpdate(wtc[w], UniqueWordTopics(words, topics, w, 1))
        ELSE wtc[w]]

\* The four dictionaries before the loop over the documents.
EmptyTables ==
    [ MC  |-> [d \in 1 .. D |-> << >>],
      dtc |-> [d \in 1 .. D |-> ZeroCounter],
      wtc |-> [w \in VocabSet |-> ZeroCounter],
      ttc |-> ZeroCounter ]

\* One pass of the loop body of _initialize_topics for document doc, whose
\* random topics are topics.
InitializeDoc(t, doc, topics) ==
    [ MC  |-> [t.MC EXCEPT ![doc] = InitialChains(topics)],
      dtc |-> InitDocumentTopicCounts(t.dtc, doc, topics),
      wtc |-> InitWordTopicCounts(t.wtc, iden_to_tokens[doc], topics),
      ttc |-> InitTotalTopicCounts(t.ttc, topics) ]

\* The draw of document d inside the flat draw g over all tokens.
DocDraw(g, d) ==
    [x \in 1 .. Len(iden_to_tokens[d]) |->
        g[TokensUpTo(iden_to_tokens, d - 1) + x]]

\* _initialize_topics with the random draws g: the loop over all documents.
RECURSIVE InitializeUpTo(_, _)
InitializeUpTo(g, d) ==
    IF d = 0 THEN EmptyTables
    ELSE InitializeDoc(InitializeUpTo(g, d - 1), d, DocDraw(g, d))

initialize_topics(g) == InitializeUpTo(g, D)

\* _initialize_topics raises iff randint raises for some document.
InitializeRaises ==
    \E d \in 1 .. D : RandintRaises(1, K + 1, Len(iden_to_tokens[d]))

(* ------------------------- loop positions ------------------------------ *)
\* First document at or after d that has a token, 0 when there is none.
RECURSIVE FirstNonEmptyFrom(_, _)
FirstNonEmptyFrom(c, d) ==
    IF d > Len(c) THEN 0
    ELSE IF Len(c[d]) > 0 THEN d
    ELSE FirstNonEmptyFrom(c, d + 1)

\* Variant: the last token of a document is passed over.
NextCursorSkipsLast(c, doc, i) ==
    IF i + 1 < Len(c[doc]) THEN <<doc, i + 1>>
    ELSE LET nd == FirstNonEmptyFrom(c, doc + 1)
         IN  IF nd = 0 THEN <<0, 0>> ELSE <<nd, 1>>

\* Position following <<doc, i>> in "for doc, words ... for i, word ...";
\* <<0, 0>> when the sweep is over.
NextCursor(c, doc, i) ==
    IF i < Len(c[doc]) THEN <<doc, i + 1>>
    ELSE LET nd == FirstNonEmptyFrom(c, doc + 1)
         IN  IF nd = 0 THEN <<0, 0>> ELSE <<nd, 1>>

\* Variant: range(niter + 1).
LoopRunsInclusive(c, n) == n >= 0 /\ FirstNonEmptyFrom(c, 1) # 0

\* The body of the sampling loop runs at least once.
LoopRuns(c, n) == n > 0 /\ FirstNonEmptyFrom(c, 1) # 0

(* ------------------------ fit: line 31 --------------------------------- *)
\* fit's locals are gone once fit raises.
Raise(e) ==
    /\ pc' = "raised"
    /\ err' = e
    /\ j' = 0
    /\ cur' = <<1, 1>>
    /\ document_word_topics_MC' = NoValue
    /\ document_topic_counts' = NoValue
    /\ word_topic_counts' = NoValue
    /\ total_topic_counts' = NoValue
    /\ document_word_topics' = NoValue

\* fit(alpha, beta, niter) up to the return of _initialize_topics.  The
\* runs considered call fit at most once, and get_top_n_words after it or
\* instead of it.
FitInitialize ==
    /\ pc = "constructed"
    /\ query.status = "not_called"
    /\ \E h \in FitHypers(self_alpha, self_beta), n \in NiterValues :
        /\ TotalTokens(iden_to_tokens) * n <= MaxDraws
        /\ alpha' = h[1]
        /\ beta' = h[2]
        /\ niter' = n
        /\ IF InitializeRaises
           THEN Raise("ValueError")
           ELSE \E g \in RandintOutcomes(1, K + 1, TotalTokens(iden_to_tokens)) :
                LET t == initialize_topics(g)
                IN  /\ document_word_topics_MC' = t.MC
                    /\ document_topic_counts' = t.dtc
                    /\ word_topic_counts' = t.wtc
                    /\ total_topic_counts' = t.ttc
                    /\ j' = 0
                    /\ cur' = <<Max2(FirstNonEmptyFrom(iden_to_tokens, 1), 1), 1>>
                    /\ pc' = IF LoopRuns(iden_to_tokens, n)
                             THEN "sampling" ELSE "aggregate"
                    /\ err' = "none"
                    /\ document_word_topics' = NoValue
    /\ UNCHANGED << iden_to_tokens, K, self_alpha, self_beta, vocabulary,
                    phi_matrix, topic_top_words, query >>

(* ------------------- fit: conditional densities ------------------------ *)
Last(s) == s[Len(s)]

\* Lines 44-57 for one candidate k: the density a_kj * b_wk as the exact
\* fraction num / den, each of a_kj, N_wk + beta, N_k + W * beta multiplied
\* by Scale (one factor Scale > 0 is common to all K densities).
Density(dtc, wtc, ttc, doc, word, curr_topic, k, a, b) ==
    LET excl == IF curr_topic = k THEN 1 ELSE 0
        N_kj == dtc[doc][k] - excl
        N_wk == wtc[word][k] - excl
        N_k  == ttc[k] - excl
        a_kj == N_kj * Scale + a
    IN  [ num |-> a_kj * (N_wk * Scale + b),
          den |-> N_k * Scale + W * b ]

\* densities[k - 1] for k in range(1, K + 1)
Densities(dtc, wtc, ttc, doc, word, curr_topic, a, b) ==
    [k \in Topics |-> Density(dtc, wtc, ttc, doc, word, curr_topic, k, a, b)]

\* The float division of line 56 raises ZeroDivisionError on a zero divisor.
DensitiesRaise(dens) == \E k \in DOMAIN dens : dens[k].den = 0

RECURSIVE DenProduct(_, _)
DenProduct(dens, k) ==
    IF k = 0 THEN 1 ELSE DenProduct(dens, k - 1) * dens[k].den

\* The densities over their common denominator |DenProduct|: integers in
\* the same ratios and with the same signs as the K densities.
Weights(dens) ==
    LET P == DenProduct(dens, Len(dens))
        sgn == IF P < 0 THEN 0 - 1 ELSE 1
    IN  [k \in DOMAIN dens |-> sgn * dens[k].num * (P \div dens[k].den)]

(* ----------------------- random.choices -------------------------------- *)
\* itertools.accumulate(weights)
RECURSIVE Accumulate(_, _)
Accumulate(weights, x) ==
    IF x = 0 THEN 0 ELSE Accumulate(weights, x - 1) + weights[x]

CumWeights(weights) == [x \in DOMAIN weights |-> Accumulate(weights, x)]

\* bisect.bisect_right(cum, r, lo, hi) with 0-based lo and hi.
RECURSIVE Bisect(_, _, _, _)
Bisect(cum, r, lo, hi) ==
    IF lo >= hi THEN lo
    ELSE LET mid == (lo + hi) \div 2
         IN  IF r < cum[mid + 1] THEN Bisect(cum, r, lo, mid)
             ELSE Bisect(cum, r, mid + 1, hi)

\* choices raises when the total of the weights is not positive.
ChoicesRaises(weights) == Last(CumWeights(weights)) <= 0

\* The labels choices(range(1, K + 1), weights) can return: the bisection of
\* r = random() * total for r in [0, total).  The result changes only where
\* r crosses a cumulative weight, so 0 and the cumulative weights inside
\* (0, total) stand for every r.
ChoicesOutcomes(weights) ==
    LET cum == CumWeights(weights)
        total == Last(cum)
        points == {0} \cup { cum[x] : x \in { y \in DOMAIN cum :
                                               cum[y] > 0 /\ cum[y] < total } }
    IN  { Bisect(cum, r, 0, Len(cum) - 1) + 1 : r \in points }

(* ------------------- fit: count updates, lines 64-75 ------------------- *)
\* Variant: the new topic is decremented and the old one incremented.
UpdateDocumentTopicCountsSwapped(dtc, doc, curr_topic, new_topic) ==
    IF new_topic = curr_topic THEN dtc
    ELSE [dtc EXCEPT ![doc][new_topic] = @ - 1, ![doc][curr_topic] = @ + 1]

\* Variant: the old topic keeps its count.
UpdateDocumentTopicCountsNoDecrement(dtc, doc, curr_topic, new_topic) ==
    IF new_topic = curr_topic THEN dtc
    ELSE [dtc EXCEPT ![doc][new_topic] = @ + 1]

UpdateDocumentTopicCounts(dtc, doc, curr_topic, new_topic) ==
    IF new_topic = curr_topic THEN dtc
    ELSE [dtc EXCEPT ![doc][curr_topic] = @ - 1, ![doc][new_topic] = @ + 1]

\* Variant: the exclusion decrement of line 51 is stored in the table when
\* the topic does not change.
UpdateWordTopicCountsWriteBack(wtc, word, curr_topic, new_topic) ==
    IF new_topic = curr_topic
    THEN [wtc EXCEPT ![word][curr_topic] = @ - 1]
    ELSE [wtc EXCEPT ![word][curr_topic] = @ - 1, ![word][new_topic] = @ + 1]

UpdateWordTopicCounts(wtc, word, curr_topic, new_topic) ==
    IF new_topic = curr_topic THEN wtc
    ELSE [wtc EXCEPT ![word][curr_topic] = @ - 1, ![word][new_topic] = @ + 1]

\* Variant: the new topic is not counted.
UpdateTotalTopicCountsNoIncrement(ttc, curr_topic, new_topic) ==
    IF new_topic = curr_topic THEN ttc
    ELSE [ttc EXCEPT ![curr_topic] = @ - 1]

UpdateTotalTopicCounts(ttc, curr_topic, new_topic) ==
    IF new_topic = curr_topic THEN ttc
    ELSE [ttc EXCEPT ![curr_topic] = @ - 1, ![new_topic] = @ + 1]

\* Variant: the chain is replaced by its newest label.
AppendTopicOverwrite(MC, doc, i, new_topic) ==
    [MC EXCEPT ![doc][i] = << new_topic >>]

\* document_word_topics_MC[doc][i].append(new_topic)
AppendTopic(MC, doc, i, new_topic) ==
    [MC EXCEPT ![doc][i] = Append(@, new_topic)]

(* ------------------- fit: one visit of the sweep ----------------------- *)
\* Lines 36-75 for the occurrence cur, followed by the loop headers that
\* find the next occurrence, the next sweep or the end of the loop.
Resample ==
    /\ pc = "sampling"
    /\ LET doc == cur[1]
           i == cur[2]
           word == iden_to_tokens[doc][i]
           curr_topic == Last(document_word_topics_MC[doc][i])
           dens == Densities(document_topic_counts, word_topic_counts,
                             total_topic_counts, doc, word, curr_topic,
                             alpha, beta)
           nxt == NextCursor(iden_to_tokens, doc, i)
       IN  IF DensitiesRaise(dens)
           THEN Raise("ZeroDivisionError")
           ELSE IF ChoicesRaises(Weights(dens))
           THEN Raise("ValueError")
           ELSE \E new_topic \in ChoicesOutcomes(Weights(dens)) :
                /\ document_word_topics_MC' =
                       AppendTopic(document_word_topics_MC, doc, i, new_topic)
                /\ document_topic_counts' =
                       UpdateDocumentTopicCounts(document_topic_counts, doc,
                                                 curr_topic, new_topic)
                /\ word_topic_counts' =
                       UpdateWordTopicCounts(word_topic_counts, word,
                                             curr_topic, new_topic)
                /\ total_topic_counts' =
                       UpdateTotalTopicCounts(total_topic_counts,
                                              curr_topic, new_topic)
                /\ IF nxt # <<0, 0>>
                   THEN /\ cur' = nxt
                        /\ j' = j
                        /\ pc' = "sampling"
                   ELSE /\ cur' = <<FirstNonEmptyFrom(iden_to_tokens, 1), 1>>
                        /\ j' = j + 1
                        /\ pc' = IF j + 1 < niter THEN "sampling" ELSE "aggregate"
                /\ err' = "none"
                /\ document_word_topics' = NoValue
    /\ UNCHANGED << iden_to_tokens, K, self_alpha, self_beta, vocabulary,
                    phi_matrix, alpha, beta, niter, topic_top_words, query >>

(* -------------------- _compute_MC_topic_approx ------------------------- *)
\* Number of times label k occurs in the chain.
Frequency(chain, k) == Cardinality({ x \in 1 .. Len(chain) : chain[x] = k })

\* Variant: of the most frequent values, the one that occurs first.
ModeFirstOfTies(chain) ==
    LET vals == { chain[x] : x \in 1 .. Len(chain) }
        best == { v \in vals : \A u \in vals : Frequency(chain, v) >= Frequency(chain, u) }
        first(v) == CHOOSE x \in 1 .. Len(chain) :
                        chain[x] = v /\ \A y \in 1 .. (x - 1) : chain[y] # v
    IN  CHOOSE v \in best : \A u \in best : first(v) <= first(u)

\* scipy.stats.mode(chain, axis=None)[0][0]: the smallest of the values of
\* the chain that occur most often.
Mode(chain) ==
    LET vals == { chain[x] : x \in 1 .. Len(chain) }
        best == { v \in vals : \A u \in vals : Frequency(chain, v) >= Frequency(chain, u) }
    IN  CHOOSE v \in best : \A u \in best : v <= u

compute_MC_topic_approx(MC) ==
    [doc \in DOMAIN MC |-> [i \in 1 .. Len(MC[doc]) |-> Mode(MC[doc][i])]]

\* Line 78.
Aggregate ==
    /\ pc = "aggregate"
    /\ document_word_topics' = compute_MC_topic_approx(document_word_topics_MC)
    /\ pc' = "estimate"
    /\ UNCHANGED << iden_to_tokens, K, self_alpha, self_beta, vocabulary,
                    phi_matrix, alpha, beta, niter, err, j, cur,
                    document_word_topics_MC, document_topic_counts,
                    word_topic_counts, total_topic_counts, topic_top_words,
                    query >>

(* --------------------- fit: lines 81-84 -------------------------------- *)
\* Names bound at module level (lines 1-11); methods of the class are not
\* among them.
ModuleGlobals ==
    { "Counter", "choices", "get_unique_words", "np", "trange", "mode",
      "LatentDirichletAllocation" }

\* Evaluating a bare name that is neither a local nor a module global.
NameLookup(name) == IF name \in ModuleGlobals THEN "none" ELSE "NameError"

\* Line 81 evaluates the bare name _compute_phi_estimates before anything
\* else of lines 81-84 runs.
Estimate ==
    /\ pc = "estimate"
    /\ IF NameLookup("_compute_phi_estimates") = "NameError"
       THEN Raise("NameError")
       ELSE /\ pc' = "returned"
            /\ UNCHANGED << err, j, cur, document_word_topics_MC,
                            document_topic_counts, word_topic_counts,
                            total_topic_counts, document_word_topics >>
    /\ UNCHANGED << iden_to_tokens, K, self_alpha, self_beta, vocabulary,
                    phi_matrix, alpha, beta, niter, topic_top_words, query >>

(* ----------------- methods called on the instance --------------------- *)
\* _initialize_topics() called by the user of the instance, who keeps the
\* four dictionaries it returns.
CallInitializeTopics ==
    /\ pc \in {"constructed", "raised"}
    /\ query.status = "not_called"
    /\ IF InitializeRaises
       THEN Raise("ValueError")
       ELSE \E g \in RandintOutcomes(1, K + 1, TotalTokens(iden_to_tokens)) :
            LET t == initialize_topics(g)
            IN  /\ document_word_topics_MC' = t.MC
                /\ document_topic_counts' = t.dtc
                /\ word_topic_counts' = t.wtc
                /\ total_topic_counts' = t.ttc
                /\ pc' = "initialized"
                /\ UNCHANGED << err, j, cur, document_word_topics >>
    /\ UNCHANGED << iden_to_tokens, K, self_alpha, self_beta, vocabulary,
                    phi_matrix, alpha, beta, niter, topic_top_words, query >>

\* Variant: the smoothing of the denominator is not scaled by W.
PhiEntryUnscaledDenominator(wtc, ttc, word, k) ==
    << wtc[word][k] * Scale + self_beta, ttc[k] * Scale + self_beta >>

\* Line 99: (N_wk + self.beta) / (N_k + self.W * self.beta) as the fraction
\* <<num, den>>, both multiplied by Scale.
PhiEntry(wtc, ttc, word, k) ==
    << wtc[word][k] * Scale + self_beta, ttc[k] * Scale + W * self_beta >>

\* The loops of lines 94-99 from their n-th iteration on (w outer, k inner):
\* the matrix they leave in self.phi_matrix and whether the division raised.
RECURSIVE PhiLoop(_, _, _, _)
PhiLoop(phi, wtc, ttc, n) ==
    IF n > W * K THEN [phi |-> phi, raised |-> FALSE]
    ELSE LET w == ((n - 1) \div K) + 1
             k == ((n - 1) % K) + 1
             e == PhiEntry(wtc, ttc, vocabulary[w], k)
         IN  IF e[2] = 0 THEN [phi |-> phi, raised |-> TRUE]
             ELSE PhiLoop([phi EXCEPT ![k][w] = e], wtc, ttc, n + 1)

compute_phi_estimates(phi, wtc, ttc) == PhiLoop(phi, wtc, ttc, 1)

\* _compute_phi_estimates(word_topic_counts, total_topic_counts) called by
\* the user of the instance with the dictionaries of _initialize_topics.
\* What the loop wrote before a ZeroDivisionError stays in self.phi_matrix.
CallComputePhiEstimates ==
    /\ pc = "initialized"
    /\ LET r == compute_phi_estimates(phi_matrix, word_topic_counts,
                                      total_topic_counts)
       IN  /\ phi_matrix' = r.phi
           /\ IF r.raised
              THEN Raise("ZeroDivisionError")
              ELSE /\ pc' = "phi_estimated"
                   /\ UNCHANGED << err, j, cur, document_word_topics_MC,
                                   document_topic_counts, word_topic_counts,
                                   total_topic_counts, document_word_topics >>
    /\ UNCHANGED << iden_to_tokens, K, self_alpha, self_beta, vocabulary,
                    alpha, beta, niter, topic_top_words, query >>

(* ------------------------ get_top_n_words ------------------------------ *)
\* p < q for fractions <<num, den>> with non-zero denominators.
FracLess(p, q) ==
    IF p[2] * q[2] > 0 THEN p[1] * q[2] < q[1] * p[2]
    ELSE p[1] * q[2] > q[1] * p[2]

\* numpy.argsort(row): the indices in ascending order of value; the sort of
\* a short array is an insertion sort, which keeps equal values in index
\* order.
Argsort(row) ==
    LET before(y, x) == FracLess(row[y], row[x]) \/ (~FracLess(row[x], row[y]) /\ y < x)
        rank(x) == Cardinality({ y \in DOMAIN row : before(y, x) })
    IN  [r \in 1 .. Len(row) |-> CHOOSE x \in DOMAIN row : rank(x) = r - 1]

\* Variant: the ascending order is kept.
NotReversed(s) == s

\* s[::-1]
Reversed(s) == [x \in 1 .. Len(s) |-> s[Len(s) + 1 - x]]

\* s[:n] for n >= 0
Prefix(s, n) == [x \in 1 .. (IF n < Len(s) THEN n ELSE Len(s)) |-> s[x]]

\* Lines 156-157: the words of the n highest entries of a row of phi.
TopNWords(row, n) ==
    LET top_n_idx == Prefix(Reversed(Argsort(row)), n)
    IN  [x \in 1 .. Len(top_n_idx) |-> vocabulary[top_n_idx[x]]]

\* get_top_n_words(n) with return_probs=False, called on the instance
\* between calls of fit.  The method has no raising path of its own.
GetTopNWords ==
    /\ pc \in {"constructed", "raised", "returned", "phi_estimated"}
    /\ query.status = "not_called"
    /\ \E n \in NValues :
        /\ topic_top_words' =
               [k \in 1 .. Len(phi_matrix) |-> TopNWords(phi_matrix[k], n)]
        /\ query' = [status |-> "returned", phase |-> pc, n |-> n]
    /\ UNCHANGED << iden_to_tokens, K, self_alpha, self_beta, vocabulary,
                    phi_matrix, alpha, beta, niter, pc, err, j, cur,
                    document_word_topics_MC, document_topic_counts,
                    word_topic_counts, total_topic_counts,
                    document_word_topics >>

(* -------------------------- specification ------------------------------ *)
Next ==
    \/ FitInitialize
    \/ Resample
    \/ Aggregate
    \/ Estimate
    \/ CallInitializeTopics
    \/ CallComputePhiEstimates
    \/ GetTopNWords

Spec == Init /\ [][Next]_vars

(* ============================ properties ============================== *)
\* fit is past _initialize_topics and still holds its dictionaries.
Live == pc \in {"sampling", "aggregate", "estimate"}

RECURSIVE SumCounterUpTo(_, _)
SumCounterUpTo(counter, k) ==
    IF k = 0 THEN 0 ELSE SumCounterUpTo(counter, k - 1) + counter[k]

\* Sum over the topics 1 .. K of a counter.
SumCounter(counter) == SumCounterUpTo(counter, K)

\* Occurrences of word w in document d, and in the whole corpus.
OccurrencesIn(w, d) ==
    Cardinality({ x \in 1 .. Len(iden_to_tokens[d]) : iden_to_tokens[d][x] = w })

RECURSIVE OccurrencesUpTo(_, _)
OccurrencesUpTo(w, d) ==
    IF d = 0 THEN 0 ELSE OccurrencesUpTo(w, d - 1) + OccurrencesIn(w, d)

Occurrences(w) == OccurrencesUpTo(w, D)

\* Sum of word_topic_counts[w][k] over the first x words of the vocabulary.
RECURSIVE WordColumnUpTo(_, _)
WordColumnUpTo(k, x) ==
    IF x = 0 THEN 0
    ELSE WordColumnUpTo(k, x - 1) + word_topic_counts[vocabulary[x]][k]

\* Sum of document_topic_counts[d][k] over the first d documents.
RECURSIVE DocColumnUpTo(_, _)
DocColumnUpTo(k, d) ==
    IF d = 0 THEN 0 ELSE DocColumnUpTo(k, d - 1) + document_topic_counts[d][k]

\* All <<doc, i>> occurrences of the corpus.
Occs == UNION { { <<d, i>> : i \in 1 .. Len(iden_to_tokens[d]) } : d \in 1 .. D }

Chain(o) == document_word_topics_MC[o[1]][o[2]]

\* Some occurrence has just been moved to another topic, in the middle of
\* a sweep.
MovedMidSweep ==
    /\ pc = "sampling"
    /\ cur # <<FirstNonEmptyFrom(iden_to_tokens, 1), 1>>
    /\ \E o \in Occs :
        /\ Len(Chain(o)) = j + 2
        /\ Chain(o)[j + 2] # Chain(o)[j + 1]

\* C1: once _initialize_topics is done and after every resampling step of
\* fit, the document-topic counts of every document sum over the topics to
\* the number of tokens of that document.
C1_DocumentCountsSumToLength ==
    Live => \A d \in 1 .. D :
                SumCounter(document_topic_counts[d]) = Len(iden_to_tokens[d])

\* C1 witness: a document of several tokens, one of which has just changed
\* topic while the sweep is still inside the corpus.
C1_Witness ==
    /\ MovedMidSweep
    /\ \E d \in 1 .. D : Len(iden_to_tokens[d]) >= 2

\* C2: once _initialize_topics is done and after every resampling step of
\* fit, the word-topic counts of every vocabulary word sum over the topics
\* to the number of occurrences of the word in the whole corpus.
C2_WordCountsSumToOccurrences ==
    Live => \A w \in VocabSet :
                SumCounter(word_topic_counts[w]) = Occurrences(w)

\* C2 witness: a word that occurs twice in one document and again in
\* another one, after a token changed topic in the middle of a sweep.
C2_Witness ==
    /\ MovedMidSweep
    /\ W >= 2
    /\ \E w \in VocabSet :
        /\ \E d \in 1 .. D : OccurrencesIn(w, d) >= 2
        /\ \E d, e \in 1 .. D :
               d # e /\ OccurrencesIn(w, d) >= 1 /\ OccurrencesIn(w, e) >= 1

\* C3: once _initialize_topics is done and after every resampling step of
\* fit, the total count of every topic equals the topic's column sum of the
\* word-topic counts and of the document-topic counts, and the total counts
\* sum to the number of tokens of the corpus.
C3_TotalCountsAgree ==
    Live =>
        /\ \A k \in Topics :
            /\ total_topic_counts[k] = WordColumnUpTo(k, W)
            /\ total_topic_counts[k] = DocColumnUpTo(k, D)
        /\ SumCounter(total_topic_counts) = TotalTokens(iden_to_tokens)

\* C3 witness: two documents and two words, every topic in use, after a
\* token changed topic in the middle of a sweep.
C3_Witness ==
    /\ MovedMidSweep
    /\ K >= 2
    /\ W >= 2
    /\ FirstNonEmptyFrom(iden_to_tokens, 2) # 0
    /\ \A k \in Topics : total_topic_counts[k] >= 1

\* The configuration the run contract is stated for.
ValidRun ==
    /\ K >= 1
    /\ TotalTokens(iden_to_tokens) >= 1
    /\ self_alpha > 0 /\ self_beta > 0
    /\ alpha > 0 /\ beta > 0
    /\ niter >= 0

\* C4: a call of fit on a non-empty corpus with K >= 1 and positive alpha
\* and beta ends without an exception and hands back its outputs, the
\* per-document topic labels among them.
C4_FitReturnsOutputs ==
    (ValidRun /\ pc \in {"raised", "returned"}) =>
        /\ pc = "returned"
        /\ err = "none"
        /\ DOMAIN document_word_topics = 1 .. D

\* C5: a resampling step that draws the topic the occurrence already has
\* leaves the three count tables exactly as they were.
C5_SelfTransitionNoOp ==
    [][ ( /\ pc = "sampling"
          /\ pc' # "raised"
          /\ Last(document_word_topics_MC'[cur[1]][cur[2]]) =
                 Last(document_word_topics_MC[cur[1]][cur[2]]) )
        => ( /\ document_topic_counts' = document_topic_counts
             /\ word_topic_counts' = word_topic_counts
             /\ total_topic_counts' = total_topic_counts ) ]_vars

\* C5 witness: an occurrence whose last draw repeated its topic although
\* another draw was possible, with more than one token counted.
C5_Witness ==
    /\ Live
    /\ K >= 2
    /\ alpha > 0 /\ beta > 0
    /\ TotalTokens(iden_to_tokens) >= 2
    /\ \E o \in Occs :
        /\ Len(Chain(o)) >= 2
        /\ Chain(o)[Len(Chain(o))] = Chain(o)[Len(Chain(o)) - 1]

\* Occurrence o comes before the cursor in the running sweep.
Visited(o) ==
    /\ pc = "sampling"
    /\ o[1] < cur[1] \/ (o[1] = cur[1] /\ o[2] < cur[2])

IsPrefix(s, t) == Len(s) <= Len(t) /\ \A x \in 1 .. Len(s) : s[x] = t[x]

\* Length of every chain: one label from the initial draw, one per completed
\* sweep, one more once visited by the running sweep; niter + 1 at the end.
ChainLengths ==
    Live =>
        /\ \A o \in Occs :
               Len(Chain(o)) = j + 1 + (IF Visited(o) THEN 1 ELSE 0)
        /\ (pc # "sampling" /\ Occs # {}) => j = niter

\* A step of fit leaves every chain as it is or appends one label to it.
ChainsOnlyGrow ==
    (Live /\ Live') =>
        \A o \in Occs :
            /\ IsPrefix(Chain(o), document_word_topics_MC'[o[1]][o[2]])
            /\ Len(document_word_topics_MC'[o[1]][o[2]]) <= Len(Chain(o)) + 1

\* C6: every topic history starts with the single initial label, gains one
\* label per sweep, is never shortened or rewritten, and has niter + 1
\* labels when the sampling loop has ended.
C6_HistoryGrowsByOnePerSweep == [](ChainLengths) /\ [][ChainsOnlyGrow]_vars

\* C6 witness: two sweeps are over and every chain has three labels.
C6_Witness ==
    /\ pc = "aggregate"
    /\ niter = 2
    /\ j = 2
    /\ Occs # {}
    /\ \A o \in Occs : Len(Chain(o)) = 3

\* C7: with niter = 0 fit never enters the sampling loop and the aggregated
\* label of every occurrence is its initial random topic.
C7_ZeroIterationsKeepInitialDraw ==
    (niter = 0 /\ pc # "constructed") =>
        /\ pc # "sampling"
        /\ pc = "estimate" =>
               \A o \in Occs :
                   /\ Len(Chain(o)) = 1
                   /\ document_word_topics[o[1]][o[2]] = Chain(o)[1]

\* C7 witness: aggregation is done for niter = 0 on a corpus whose tokens
\* drew different initial topics.
C7_Witness ==
    /\ pc = "estimate"
    /\ niter = 0
    /\ \E o, q \in Occs : Chain(o)[1] # Chain(q)[1]

\* C8: the aggregated label of every occurrence is a label of maximal
\* frequency in the whole chain of the occurrence, the lowest such label,
\* and every document gets one label per token.
C8_ModeWithLowestTie ==
    pc = "estimate" =>
        /\ DOMAIN document_word_topics = 1 .. D
        /\ \A d \in 1 .. D :
               Len(document_word_topics[d]) = Len(iden_to_tokens[d])
        /\ \A o \in Occs :
            LET r == document_word_topics[o[1]][o[2]]
            IN  /\ r \in Topics
                /\ \A k \in Topics :
                    /\ Frequency(Chain(o), k) <= Frequency(Chain(o), r)
                    /\ Frequency(Chain(o), k) = Frequency(Chain(o), r) => r <= k

\* C8 witness: aggregation is done on a chain whose two labels tie and
\* whose first label is not the lower one.
C8_Witness ==
    /\ pc = "estimate"
    /\ \E o \in Occs : Chain(o) = <<2, 1>> /\ document_word_topics[o[1]][o[2]] = 1

\* No run of fit had completed and no phi had been estimated when the query
\* was made.
QueriedWithoutPhi ==
    /\ query.status # "not_called"
    /\ query.phase \notin {"returned", "phi_estimated"}

\* C9: get_top_n_words called while no run of fit has completed ends in an
\* illegal-state error and returns no mapping.
C9_QueryBeforeFitIsError ==
    QueriedWithoutPhi =>
        /\ query.status = "IllegalStateError"
        /\ topic_top_words = NoValue

\* The configuration is invalid: K, a hyperparameter of the constructor or
\* of the running call of fit, or the corpus.
InvalidConfiguration ==
    \/ K <= 0
    \/ self_alpha <= 0 \/ self_beta <= 0
    \/ pc # "constructed" /\ pc # "ctor_raised" /\ (alpha <= 0 \/ beta <= 0)
    \/ TotalTokens(iden_to_tokens) = 0

\* C10: with an invalid configuration no call gets as far as drawing topics
\* or filling a count table, and what is raised is a configuration error.
C10_InvalidConfigurationRejected ==
    InvalidConfiguration =>
        /\ ~Live
        /\ pc # "returned"
        /\ err \in {"none", "ValueError"}

\* Index of word w in the vocabulary.
IndexOf(w) == CHOOSE x \in 1 .. W : vocabulary[x] = w

Min2(x, y) == IF x <= y THEN x ELSE y

\* C11: for every n >= 0 and every topic, get_top_n_words(n) returns
\* min(n, W) distinct vocabulary words in order of non-increasing phi of the
\* topic; for n > W these are all W words.
C11_TopWordsRankedAndClamped ==
    query.status = "returned" =>
        /\ DOMAIN topic_top_words = 1 .. Len(phi_matrix)
        /\ \A k \in 1 .. Len(phi_matrix) :
            LET r == topic_top_words[k]
            IN  /\ Len(r) = Min2(query.n, W)
                /\ \A x \in 1 .. Len(r) : r[x] \in VocabSet
                /\ \A x, y \in 1 .. Len(r) : x # y => r[x] # r[y]
                /\ \A x, y \in 1 .. Len(r) :
                       x < y => ~FracLess(phi_matrix[k][IndexOf(r[x])],
                                          phi_matrix[k][IndexOf(r[y])])

\* C11 witness: more words asked for than the vocabulary has, on a phi
\* whose first word is strictly the likelier one of some topic.
C11_Witness ==
    /\ query.status = "returned"
    /\ query.phase = "phi_estimated"
    /\ W >= 2
    /\ query.n > W
    /\ \E k \in 1 .. Len(phi_matrix) :
           FracLess(phi_matrix[k][2], phi_matrix[k][1])

\* Sum of the numerators of the first x entries of row k of phi.
RECURSIVE RowNumeratorsUpTo(_, _)
RowNumeratorsUpTo(k, x) ==
    IF x = 0 THEN 0 ELSE RowNumeratorsUpTo(k, x - 1) + phi_matrix[k][x][1]

\* C12: once phi is estimated, every row of phi sums to 1: all entries of
\* row k are fractions over N[k] + W * beta and their numerators
\* N[w][k] + beta add up to that denominator.
C12_PhiRowsSumToOne ==
    pc = "phi_estimated" =>
        \A k \in Topics :
            /\ \A x \in 1 .. W :
                   phi_matrix[k][x][2] = total_topic_counts[k] * Scale + W * self_beta
            /\ RowNumeratorsUpTo(k, W) = total_topic_counts[k] * Scale + W * self_beta

\* C12 witness: phi estimated for two topics over two words from counts
\* that differ between the topics.
C12_Witness ==
    /\ pc = "phi_estimated"
    /\ K >= 2
    /\ W >= 2
    /\ self_beta > 0
    /\ total_topic_counts[1] # total_topic_counts[2]

\* The occurrences of the first d documents of corpus c, documents in
\* corpus order and positions in token order.
RECURSIVE OccurrencesInOrder(_, _)
OccurrencesInOrder(c, d) ==
    IF d = 0 THEN << >>
    ELSE OccurrencesInOrder(c, d - 1) \o [i \in 1 .. Len(c[d]) |-> <<d, i>>]

OccOrder == OccurrencesInOrder(iden_to_tokens, D)

PosOf(o) == CHOOSE x \in 1 .. Len(OccOrder) : OccOrder[x] = o

\* Labels appended to the chains of the first x occurrences since the
\* initial draw.
RECURSIVE AppendedUpTo(_)
AppendedUpTo(x) ==
    IF x = 0 THEN 0 ELSE AppendedUpTo(x - 1) + Len(Chain(OccOrder[x])) - 1

\* Where the loops of fit stand: inside sweep j + 1 of niter at occurrence
\* cur, with one visit made for every position passed; niter sweeps made
\* once the loop is left.
SweepPosition ==
    /\ pc = "sampling" =>
        /\ cur \in Occs
        /\ j >= 0 /\ j < niter
        /\ AppendedUpTo(Len(OccOrder)) = j * Len(OccOrder) + PosOf(cur) - 1
    /\ (pc \in {"aggregate", "estimate"} /\ Occs # {}) =>
        /\ j = niter
        /\ AppendedUpTo(Len(OccOrder)) = niter * Len(OccOrder)

\* A step of the sampling loop visits the occurrence cur alone and moves on
\* to the next occurrence in order, to the first one of the next sweep, or
\* out of the loop after sweep niter; the loop is entered at the first
\* occurrence.
SweepStep ==
    /\ (pc = "constructed" /\ pc' = "sampling") =>
           (cur' = OccOrder[1] /\ j' = 0)
    /\ (pc = "sampling" /\ pc' # "raised") =>
        /\ \A o \in Occs :
               Len(document_word_topics_MC'[o[1]][o[2]]) =
                   Len(Chain(o)) + (IF o = cur THEN 1 ELSE 0)
        /\ IF PosOf(cur) < Len(OccOrder)
           THEN pc' = "sampling" /\ j' = j /\ cur' = OccOrder[PosOf(cur) + 1]
           ELSE /\ j' = j + 1
                /\ IF j + 1 < niter
                   THEN pc' = "sampling" /\ cur' = OccOrder[1]
                   ELSE pc' = "aggregate"

\* C13: fit makes exactly niter sweeps, each of which visits every
\* (document, position) pair once, documents in corpus order and positions
\* in token order, one visit after the other.
C13_SweepsVisitEveryOccurrenceInOrder == [](SweepPosition) /\ [][SweepStep]_vars

\* C13 witness: two sweeps are over on a corpus with an empty document
\* between two others.
C13_Witness ==
    /\ pc = "aggregate"
    /\ niter = 2
    /\ j = 2
    /\ \E d \in 2 .. (D - 1) : Len(iden_to_tokens[d]) = 0
    /\ Len(OccOrder) >= 2

\* The word and the current topic of the occurrence about to be resampled.
CurWord == iden_to_tokens[cur[1]][cur[2]]

CurTopic == Last(Chain(cur))

\* The K densities of the occurrence about to be resampled.
CurDensities ==
    Densities(document_topic_counts, word_topic_counts, total_topic_counts,
              cur[1], CurWord, CurTopic, alpha, beta)

\* Whenever an occurrence is about to be resampled, its current topic is
\* counted at least once in each table and no count is negative; with
\* positive alpha and beta every density is then a positive fraction and
\* the weighted draw is possible.
CountsCoverCurrentTopic ==
    pc = "sampling" =>
        /\ document_topic_counts[cur[1]][CurTopic] >= 1
        /\ word_topic_counts[CurWord][CurTopic] >= 1
        /\ total_topic_counts[CurTopic] >= 1
        /\ \A k \in Topics :
            /\ document_topic_counts[cur[1]][k] >= 0
            /\ word_topic_counts[CurWord][k] >= 0
            /\ total_topic_counts[k] >= 0
        /\ (alpha > 0 /\ beta > 0) =>
            /\ \A k \in Topics :
                   CurDensities[k].num > 0 /\ CurDensities[k].den > 0
            /\ ~DensitiesRaise(CurDensities)
            /\ ~ChoicesRaises(Weights(CurDensities))

\* With positive alpha and beta no visit of the sampling loop raises.
NoSamplingFailure ==
    (pc = "sampling" /\ alpha > 0 /\ beta > 0) => pc' # "raised"

\* C14: at every resampling the current topic of the occurrence has a count
\* of at least 1 in the three tables, so the counts without the occurrence
\* are non-negative, and with alpha > 0 and beta > 0 all K densities are
\* positive and the sampling never fails.
C14_DensitiesPositive == [](CountsCoverCurrentTopic) /\ [][NoSamplingFailure]_vars

\* C14 witness: in the second sweep, an occurrence that is the only one of
\* its topic in its document is about to be resampled with positive alpha
\* and beta.
C14_Witness ==
    /\ pc = "sampling"
    /\ j = 1
    /\ K >= 2
    /\ alpha > 0 /\ beta > 0
    /\ document_topic_counts[cur[1]][CurTopic] = 1
    /\ total_topic_counts[CurTopic] = 1

\* fit has run its sampling loop on this instance with the hyperparameters
\* alpha and beta (and then ended at line 81).
FitSampled == err = "NameError" /\ LoopRuns(iden_to_tokens, niter)

\* p = q for fractions <<num, den>> with non-zero denominators.
FracEq(p, q) == p[1] * q[2] = q[1] * p[2]

\* C15: the beta of the conditional densities of a run is the beta phi is
\* estimated with: phi estimated on an instance whose run of fit sampled
\* with positive alpha and beta has the entries
\* (N[w][k] + beta) / (N[k] + W * beta) for that beta.
C15_SameBetaInDensityAndPhi ==
    (pc = "phi_estimated" /\ FitSampled /\ alpha > 0 /\ beta > 0
        /\ self_alpha > 0 /\ self_beta > 0) =>
        \A k \in Topics : \A x \in 1 .. W :
            FracEq(phi_matrix[k][x],
                   << word_topic_counts[vocabulary[x]][k] * Scale + beta,
                      total_topic_counts[k] * Scale + W * beta >>)

\* The four dictionaries of _initialize_topics exist, inside fit or in
\* the hands of a direct caller.
HasTables == Live \/ pc \in {"initialized", "phi_estimated"}

\* Occurrences whose latest label is k.
LatestIs(k) == { o \in Occs : Last(Chain(o)) = k }

\* C16: after _initialize_topics and after every resampling step the three
\* tables equal a recount of the latest labels of the chains: per document
\* and topic, per word and topic, and per topic.
C16_TablesEqualRecount ==
    HasTables =>
        \A k \in Topics :
            /\ \A d \in 1 .. D :
                   document_topic_counts[d][k] =
                       Cardinality({ o \in LatestIs(k) : o[1] = d })
            /\ \A w \in VocabSet :
                   word_topic_counts[w][k] =
                       Cardinality({ o \in LatestIs(k) :
                                        iden_to_tokens[o[1]][o[2]] = w })
            /\ total_topic_counts[k] = Cardinality(LatestIs(k))

\* C16 witness: in the middle of a sweep, after a change of topic, a word
\* of two documents is counted twice under one topic and once under another.
C16_Witness ==
    /\ MovedMidSweep
    /\ \E w \in VocabSet : \E k, l \in Topics :
        /\ k # l
        /\ word_topic_counts[w][k] = 2
        /\ word_topic_counts[w][l] = 1
        /\ \E d, e \in 1 .. D :
               d # e /\ OccurrencesIn(w, d) >= 1 /\ OccurrencesIn(w, e) >= 1

=============================================================================
